---- MODULE Spec2Model ----
(***************************************************************************)
(* Secret Santa: the DatabaseService (users table, game_state flag) and    *)
(* the AdminDashboard / ParticipantDashboard handlers that call it.        *)
(*                                                                         *)
(* The store is shared by every browser; each admin session keeps its own *)
(* React copy of the roster and of the flag, refreshed only by that       *)
(* session's refreshData.  A handler is one action: the db call it makes  *)
(* followed by the refreshData it awaits.                                  *)
(*                                                                         *)
(* Spec, SpecPairing, SpecRounds, SpecFault, SpecSession and SpecConfig    *)
(* take a handler as one step; SpecSeed, SpecConc and SpecRegister cut     *)
(* seedAdminIfNeeded, performShuffle and addUser at their awaits, so that  *)
(* the calls of two browsers interleave.                                   *)
(*                                                                         *)
(* Arrays are 1-based here and 0-based in the source: position i of the   *)
(* source is position i+1 of the model.                                    *)
(***************************************************************************)
EXTENDS Integers, Sequences, FiniteSets, TLC

\* ------------------------------------------------------------------ bounds
\* ids crypto.randomUUID() hands out in one run (each id is used once)
MaxId == 3
\* size of the roster the pairing specification starts from
MaxRoster == 4
\* size of the roster the specification with store errors starts from
MaxFaultRoster == 3
\* ids the log-in specification hands out (a taken username can still be
\* tried once they are used up)
MaxSessionIds == 2
\* ids the start-up specification hands out
MaxSeedIds == 2
\* participants registered before the service is called method by method
MaxConfigRoster == 2
\* participants registered before the dashboards' calls interleave
MaxConcRoster == 3

\* ------------------------------------------------------------- constants
\* assigned_to_id: null
Null == -1
\* id: 'admin-1'
AdminId == 0
\* the literal 'admin' of resetGame's .neq('id', 'admin'): the id of no row
AdminLiteral == -2

ADMIN == "ADMIN"
PARTICIPANT == "PARTICIPANT"
ADMIN_CREDENTIALS == [username |-> "admin", password |-> "password123"]

\* the browsers with an AdminDashboard open
Sessions == {1, 2}
\* what an administrator types into the form
Usernames == {"admin", "ann", "bob", "cat"}
\* the usernames of the roster the pairing specification starts from
RosterNames == <<"ann", "bob", "cat", "dan", "eve", "fay">>
Passwords == {"pw"}
\* what a participant saves as wishlist
Wishlists == {"socks"}

\* ------------------------------------------------------------------ state
VARIABLES
    users,      \* table users: id -> row
    flag,       \* table game_state, row is_shuffled: 'true' / 'false'
    nextId,     \* the next id randomUUID returns
    sess,       \* per admin session: useState users, isShuffled
    last,       \* the last db call: its name, caller, argument, the flag it
                \* found, its outcome, its return value, the calls that failed
    db,         \* DatabaseService of that browser: supabase set, isConfigured
    proc,       \* per admin session: the db method it is in the middle of
    app,        \* one more browser: App's useState and its localStorage
    hist        \* the last performShuffle / resetGame calls, oldest first

vars == <<users, flag, nextId, sess, last, db, proc, app, hist>>

\* the state only the start-up, log-in and step-by-step specifications move
rest == <<db, proc, app, hist>>

\* ---------------------------------------------------------- store faults
\* A store call is named <<kind, id>>; a handler runs under the set of its
\* calls that the store answers with an error.
NoFault == {}

Failed(f, kind, id) == <<kind, id>> \in f

\* ------------------------------------------------------------- the table
Row(username, password, role) ==
    [username |-> username, password |-> password, role |-> role,
     wishlist |-> "", assigned_to_id |-> Null]

AdminRow == Row(ADMIN_CREDENTIALS.username, ADMIN_CREDENTIALS.password, ADMIN)

\* (mutant) every row, without the filter on role
ParticipantsAll(u) == DOMAIN u

\* allUsers.filter(u => u.role === UserRole.PARTICIPANT)
Participants(u) == {id \in DOMAIN u : u[id].role = PARTICIPANT}

\* Ascending sequence of a finite set of integers
RECURSIVE SortedSeq(_)
SortedSeq(S) ==
    IF S = {} THEN <<>>
    ELSE LET m == CHOOSE x \in S : \A y \in S : x <= y
         IN  <<m>> \o SortedSeq(S \ {m})

\* getUsers + the filter on role: the participant ids in the order of the rows
ParticipantList(u) == SortedSeq(Participants(u))

\* the User object the service hands back, rebuilt field by field from a row
ToUser(id, row) ==
    [id |-> id, username |-> row.username, password |-> row.password,
     role |-> row.role, wishlist |-> row.wishlist,
     assignedToId |-> row.assigned_to_id]

\* JavaScript's undefined and null, as values comparable with a User
Undefined == [id |-> AdminLiteral, username |-> "undefined", password |-> "",
              role |-> "", wishlist |-> "", assignedToId |-> Null]
NullUser == [id |-> AdminLiteral, username |-> "null", password |-> "",
             role |-> "", wishlist |-> "", assignedToId |-> Null]

\* ------------------------------------------------------- DatabaseService
\* Every operation is a function of the store (and of the failing calls) to
\* the store it leaves, its outcome and what it returns.
Outcome(u, fl, result, ret) ==
    [users |-> u, flag |-> fl, result |-> result, ret |-> ret]

OK == "ok"
StoreError == "store error"
DuplicateUsername == "Username already exists"
InsufficientParticipants == "Need at least 2 participants to shuffle."

\* .single(): the row when exactly one matches, otherwise an error and no data
Single(S) == IF Cardinality(S) = 1 THEN CHOOSE x \in S : TRUE ELSE Null

\* (mutant) the existence check also compares the password
AddUserByCredentials(u, fl, id, username, password, f) ==
    LET existing == IF Failed(f, "select", 0) THEN Null
                    ELSE Single({x \in DOMAIN u : /\ u[x].username = username
                                                  /\ u[x].password = password})
    IN  IF existing # Null
        THEN Outcome(u, fl, DuplicateUsername, NullUser)
        ELSE IF Failed(f, "insert", 0)
        THEN Outcome(u, fl, StoreError, NullUser)
        ELSE LET row == Row(username, password, PARTICIPANT)
             IN  Outcome([x \in DOMAIN u \cup {id} |->
                              IF x = id THEN row ELSE u[x]],
                         fl, OK, ToUser(id, row))

\* The select's error is not read: a failed existence check counts as "no
\* such user".
AddUser(u, fl, id, username, password, f) ==
    LET existing == IF Failed(f, "select", 0) THEN Null
                    ELSE Single({x \in DOMAIN u : u[x].username = username})
    IN  IF existing # Null
        THEN Outcome(u, fl, DuplicateUsername, NullUser)
        ELSE IF Failed(f, "insert", 0)
        THEN Outcome(u, fl, StoreError, NullUser)
        ELSE LET row == Row(username, password, PARTICIPANT)
             IN  Outcome([x \in DOMAIN u \cup {id} |->
                              IF x = id THEN row ELSE u[x]],
                         fl, OK, ToUser(id, row))

DeleteUser(u, fl, userId, f) ==
    IF Failed(f, "delete", 0)
    THEN Outcome(u, fl, StoreError, NullUser)
    ELSE Outcome([x \in DOMAIN u \ {userId} |-> u[x]], fl, OK, NullUser)

UpdateUserWishlist(u, fl, userId, wishlist, f) ==
    IF Failed(f, "wishlist", 0)
    THEN Outcome(u, fl, StoreError, NullUser)
    ELSE Outcome([x \in DOMAIN u |->
                     IF x = userId THEN [u[x] EXCEPT !.wishlist = wishlist]
                     ELSE u[x]],
                 fl, OK, NullUser)

\* .insert(row) into the table keyed by id: a row whose id is taken is
\* refused and the table stays as it is
Insert(u, id, row) ==
    IF id \in DOMAIN u THEN u
    ELSE [x \in DOMAIN u \cup {id} |-> IF x = id THEN row ELSE u[x]]

\* the count query of seedAdminIfNeeded; an error is logged and ends the call
SeedCount(u, f) == IF Failed(f, "count", 0) THEN Null ELSE Cardinality(DOMAIN u)

\* if (count === 0) insert the admin row; the insert's result is not read
SeedAdminIfNeeded(u, f) ==
    IF SeedCount(u, f) = 0 /\ ~Failed(f, "insert", 0)
    THEN Insert(u, AdminId, AdminRow)
    ELSE u

\* (mutant) the row is looked up by username alone
AuthenticateByName(u, username, password, f) ==
    LET data == IF Failed(f, "authenticate", 0) THEN Null
                ELSE Single({x \in DOMAIN u : u[x].username = username})
    IN  IF data = Null THEN NullUser ELSE ToUser(data, u[data])

\* .eq('username', username).eq('password', password).single()
Authenticate(u, username, password, f) ==
    LET data == IF Failed(f, "authenticate", 0) THEN Null
                ELSE Single({x \in DOMAIN u : /\ u[x].username = username
                                              /\ u[x].password = password})
    IN  IF data = Null THEN NullUser ELSE ToUser(data, u[data])

GetUserById(u, id, f) ==
    IF Failed(f, "getUser", id) \/ id \notin DOMAIN u
    THEN Undefined
    ELSE ToUser(id, u[id])

IsShuffled(fl, f) ==
    IF Failed(f, "isShuffled", 0) THEN FALSE ELSE fl = "true"

\* [participants[i], participants[j]] = [participants[j], participants[i]]
Swap(p, i, j) == [p EXCEPT ![i] = p[j], ![j] = p[i]]

\* The values Math.random() can give one run on n participants:
\* r[i] is the j drawn at position i, 1 <= j <= i (source: 0 <= j <= i)
RandomOutcomes(n) == {r \in [2..n -> 1..n] : \A i \in 2..n : r[i] <= i}

\* for (let i = length - 1; i > 0; i--) swap(i, j)
RECURSIVE FisherYates(_, _, _)
FisherYates(p, r, i) ==
    IF i < 2 THEN p ELSE FisherYates(Swap(p, i, r[i]), r, i - 1)

\* (mutant) the receiver two places on: (i + 2) % length
ReceiverSkip(p, i) == p[((i + 1) % Len(p)) + 1]

\* participants[(i + 1) % participants.length]
Receiver(p, i) == p[(i % Len(p)) + 1]

\* The n updates .update({assigned_to_id: receiver.id}).eq('id', giver.id):
\* an update changes its row when the row is there and the call succeeds
AssignAll(u, p, f) ==
    [x \in DOMAIN u |->
        IF \E i \in 1..Len(p) : p[i] = x /\ ~Failed(f, "assign", x)
        THEN LET i == CHOOSE k \in 1..Len(p) : p[k] = x
             IN  [u[x] EXCEPT !.assigned_to_id = Receiver(p, i)]
        ELSE u[x]]

\* the updates array: for every giver the receiver its update will write
Updates(p) ==
    [x \in {p[i] : i \in 1..Len(p)} |->
        Receiver(p, CHOOSE k \in 1..Len(p) : p[k] = x)]

\* (mutant) an update that leaves a row alone once it has a receiver
AssignOneIfUnassigned(u, updates, x) ==
    IF x \notin DOMAIN u \/ u[x].assigned_to_id # Null THEN u
    ELSE [u EXCEPT ![x].assigned_to_id = updates[x]]

\* one of the n updates: .update({assigned_to_id: receiver.id}).eq('id', x)
AssignOne(u, updates, x) ==
    IF x \notin DOMAIN u THEN u
    ELSE [u EXCEPT ![x].assigned_to_id = updates[x]]

\* (mutant) the shuffled list given out position by position: the giver is
\* participant i of the rows, the receiver participant i of the shuffled list
PerformShuffleByPosition(u, fl, r, f) ==
    LET participants == ParticipantList(u)
        p == FisherYates(participants, r, Len(participants))
    IN  IF Len(participants) < 2
        THEN Outcome(u, fl, InsufficientParticipants, NullUser)
        ELSE Outcome([x \in DOMAIN u |->
                         IF \E i \in 1..Len(p) : participants[i] = x
                         THEN LET i == CHOOSE k \in 1..Len(p) : participants[k] = x
                              IN  [u[x] EXCEPT !.assigned_to_id = p[i]]
                         ELSE u[x]],
                     "true", OK, NullUser)

\* (mutant) the guard lets a single participant through: length < 1
PerformShuffleFromOne(u, fl, r, f) ==
    LET participants == ParticipantList(u)
    IN  IF Len(participants) < 1
        THEN Outcome(u, fl, InsufficientParticipants, NullUser)
        ELSE LET p == FisherYates(participants, r, Len(participants))
             IN  Outcome(AssignAll(u, p, f), "true", OK, NullUser)

\* An error of an assignment update or of the flag update is a value nobody
\* reads: Promise.all resolves and the method returns normally.
PerformShuffle(u, fl, r, f) ==
    IF Failed(f, "getUsers", 0)
    THEN Outcome(u, fl, StoreError, NullUser)
    ELSE LET participants == ParticipantList(u)
         IN  IF Len(participants) < 2
             THEN Outcome(u, fl, InsufficientParticipants, NullUser)
             ELSE LET p == FisherYates(participants, r, Len(participants))
                  IN  Outcome(AssignAll(u, p, f),
                              IF Failed(f, "setFlag", 0) THEN fl ELSE "true",
                              OK, NullUser)

\* (mutant) .eq('id', 'admin') for .neq: the update matches no row
ResetGameEq(u, fl, f) ==
    Outcome([x \in DOMAIN u |->
                IF x = AdminLiteral
                THEN [u[x] EXCEPT !.assigned_to_id = Null]
                ELSE u[x]],
            "false", OK, NullUser)

\* (mutant) without the update of the settings row
ResetGameKeepFlag(u, fl, f) ==
    Outcome(IF Failed(f, "clear", 0) THEN u
            ELSE [x \in DOMAIN u |->
                     IF x # AdminLiteral
                     THEN [u[x] EXCEPT !.assigned_to_id = Null]
                     ELSE u[x]],
            fl, OK, NullUser)

\* .update({assigned_to_id: null}).neq('id', 'admin'), then the flag
ResetGame(u, fl, f) ==
    Outcome(IF Failed(f, "clear", 0) THEN u
            ELSE [x \in DOMAIN u |->
                     IF x # AdminLiteral
                     THEN [u[x] EXCEPT !.assigned_to_id = Null]
                     ELSE u[x]],
            IF Failed(f, "setFlag", 0) THEN fl ELSE "false",
            OK, NullUser)

\* (mutant) without the "|| null": a lookup that finds nothing is handed on
GetAssignmentForNoFallback(u, userId, f) ==
    LET currentUser == GetUserById(u, userId, f)
    IN  IF currentUser = Undefined \/ currentUser.assignedToId = Null
        THEN NullUser
        ELSE GetUserById(u, currentUser.assignedToId, f)

GetAssignmentFor(u, userId, f) ==
    LET currentUser == GetUserById(u, userId, f)
    IN  IF currentUser = Undefined \/ currentUser.assignedToId = Null
        THEN NullUser
        ELSE LET target == GetUserById(u, currentUser.assignedToId, f)
             IN  IF target = Undefined THEN NullUser ELSE target

\* ------------------------------------------------------- AdminDashboard
\* refreshData: getUsers throws into the catch and leaves both copies as they
\* were; isShuffled never throws
RefreshData(c, u, fl, f) ==
    IF Failed(f, "refresh", 0) THEN c
    ELSE [users |-> Participants(u), isShuffled |-> IsShuffled(fl, f)]

\* disabled={isShuffled || loading} of the form and of its submit button
CanAdd(c) == ~c.isShuffled

\* the row's delete button: disabled={isShuffled}
CanDelete(c, userId) == userId \in c.users /\ ~c.isShuffled

\* the shuffle button: disabled={isShuffled || users.length < 2 || loading}
CanShuffle(c) == ~c.isShuffled /\ Cardinality(c.users) >= 2

\* {isShuffled && <Button onClick={handleReset}>}
CanReset(c) == c.isShuffled

Call(op, by, arg, o, f) ==
    [op |-> op, by |-> by, arg |-> arg, before |-> flag,
     result |-> o.result, ret |-> o.ret, faults |-> f]

\* What a handler leaves: the store of its db call and, when the call did
\* not throw, this session's copies refreshed from that store
Finish(s, o, f) ==
    /\ users' = o.users
    /\ flag' = o.flag
    /\ sess' = IF o.result = OK
               THEN [sess EXCEPT ![s] = RefreshData(sess[s], o.users, o.flag, f)]
               ELSE sess

\* useEffect(() => { refreshData(); }, []): the dashboard is (re)loaded
Mount(s, f) ==
    /\ sess' = [sess EXCEPT ![s] = RefreshData(sess[s], users, flag, f)]
    /\ last' = Call("refreshData", s, Null, Outcome(users, flag, OK, NullUser), f)
    /\ UNCHANGED <<users, flag, nextId>>

\* username and password are what was typed, never empty (an empty field
\* returns before the db call); randomUUID is called once the username check
\* has passed, also when the insert then fails
HandleAddUser(s, username, password, f) ==
    /\ CanAdd(sess[s])
    /\ nextId <= MaxId
    /\ LET o == AddUser(users, flag, nextId, username, password, f)
       IN  /\ Finish(s, o, f)
           /\ nextId' = IF o.result = DuplicateUsername THEN nextId
                        ELSE nextId + 1
           /\ last' = Call("addUser", s,
                           [id |-> nextId, username |-> username,
                            password |-> password], o, f)

HandleDeleteUser(s, userId, f) ==
    /\ CanDelete(sess[s], userId)
    /\ LET o == DeleteUser(users, flag, userId, f)
       IN  /\ Finish(s, o, f)
           /\ last' = Call("deleteUser", s, userId, o, f)
    /\ UNCHANGED nextId

HandleShuffle(s, r, f) ==
    /\ CanShuffle(sess[s])
    /\ LET o == PerformShuffle(users, flag, r, f)
       IN  /\ Finish(s, o, f)
           /\ last' = Call("performShuffle", s, Null, o, f)
    /\ UNCHANGED nextId

HandleReset(s, f) ==
    /\ CanReset(sess[s])
    /\ LET o == ResetGame(users, flag, f)
       IN  /\ Finish(s, o, f)
           /\ last' = Call("resetGame", s, Null, o, f)
    /\ UNCHANGED nextId

\* --------------------------------------------------- ParticipantDashboard
\* The dashboard of the participant who logged in as userId; the row may
\* have been deleted since.
HandleSaveWishlist(userId, wishlist, f) ==
    /\ LET o == UpdateUserWishlist(users, flag, userId, wishlist, f)
       IN  /\ users' = o.users
           /\ last' = Call("updateUserWishlist", 0, userId, o, f)
    /\ UNCHANGED <<flag, nextId, sess>>

FetchAssignment(userId, f) ==
    /\ last' = Call("getAssignmentFor", 0, userId,
                    Outcome(users, flag, OK, GetAssignmentFor(users, userId, f)), f)
    /\ UNCHANGED <<users, flag, nextId, sess>>

\* --------------------------------------------------------- specifications
\* no db method is under way in the session
Idle == [pc |-> "idle"]

\* App before initApp has run: useState(null), useState(true),
\* useState(false); stored is localStorage[SESSION_KEY]
AppStart(stored) ==
    [currentUser |-> NullUser, stored |-> stored, isLoading |-> TRUE,
     isDbReady |-> FALSE]

\* initClient with a usable url and key / the fields before any initClient
Connected == [supabase |-> TRUE, isConfigured |-> TRUE]
NotConnected == [supabase |-> FALSE, isConfigured |-> FALSE]

\* the constructor found a connection target; nothing is under way
RestInit ==
    /\ db = Connected
    /\ proc = [s \in Sessions |-> Idle]
    /\ app = AppStart(Null)
    /\ hist = <<>>

NoCall == Call("none", 0, Null, Outcome(<<>>, "", OK, NullUser), NoFault)

\* After bootstrap: the seeded admin row, the flag row 'false', no
\* participant, every dashboard loaded from that store.
Init ==
    /\ users = [x \in {AdminId} |-> AdminRow]
    /\ flag = "false"
    /\ nextId = 1
    /\ sess = [s \in Sessions |-> [users |-> {}, isShuffled |-> FALSE]]
    /\ last = NoCall
    /\ RestInit

\* the ids handed out so far to participants
Issued == 1..(nextId - 1)

ShuffleStep(s, f) ==
    \E r \in RandomOutcomes(Cardinality(Participants(users))) :
        HandleShuffle(s, r, f)

\* The store answers every call.
Next ==
    \/ \E s \in Sessions : Mount(s, NoFault) /\ UNCHANGED rest
    \/ \E s \in Sessions, un \in Usernames, pw \in Passwords :
          HandleAddUser(s, un, pw, NoFault) /\ UNCHANGED rest
    \/ \E s \in Sessions, id \in Issued :
          HandleDeleteUser(s, id, NoFault) /\ UNCHANGED rest
    \/ \E s \in Sessions : ShuffleStep(s, NoFault) /\ UNCHANGED rest
    \/ \E s \in Sessions : HandleReset(s, NoFault) /\ UNCHANGED rest
    \/ \E id \in Issued, w \in Wishlists :
          HandleSaveWishlist(id, w, NoFault) /\ UNCHANGED rest
    \/ \E id \in Issued : FetchAssignment(id, NoFault) /\ UNCHANGED rest


Spec == Init /\ [][Next]_vars

\* ------------------------------------------------------------------- App
\* The page is (re)loaded: the component state starts over, localStorage
\* stays.
Reload ==
    /\ app # AppStart(app.stored)
    /\ app' = AppStart(app.stored)
    /\ last' = Call("reload", 0, Null, Outcome(users, flag, OK, NullUser), NoFault)
    /\ UNCHANGED <<users, flag, nextId, sess, db, proc, hist>>

\* useEffect(initApp): nothing else of this page runs while isLoading
InitApp(f) ==
    /\ app.isLoading
    /\ IF db.isConfigured
       THEN LET seeded == SeedAdminIfNeeded(users, f)
                user == IF app.stored = Null THEN Undefined
                        ELSE GetUserById(seeded, app.stored, f)
            IN  /\ users' = seeded
                /\ app' = [currentUser |-> IF user = Undefined THEN NullUser
                                           ELSE user,
                           stored |-> IF user = Undefined THEN Null
                                      ELSE app.stored,
                           isLoading |-> FALSE, isDbReady |-> TRUE]
                /\ last' = Call("initApp", 0, app.stored,
                                Outcome(seeded, flag, OK, user), f)
       ELSE /\ app' = [app EXCEPT !.isLoading = FALSE]
            /\ last' = Call("initApp", 0, app.stored,
                            Outcome(users, flag, OK, Undefined), f)
            /\ UNCHANGED users
    /\ UNCHANGED <<flag, nextId, sess, db, proc, hist>>

\* the page App renders
Page ==
    IF app.isLoading THEN "loading"
    ELSE IF ~app.isDbReady THEN "config"
    ELSE IF app.currentUser = NullUser THEN "login"
    ELSE "dashboard"

\* LoginPage.handleLogin, and App.handleLogin when a user comes back
HandleLogin(username, password, f) ==
    /\ Page = "login"
    /\ LET user == Authenticate(users, username, password, f)
       IN  /\ app' = IF user = NullUser THEN app
                     ELSE [app EXCEPT !.currentUser = user, !.stored = user.id]
           /\ last' = Call("authenticate", 0,
                           [username |-> username, password |-> password],
                           Outcome(users, flag, OK, user), f)
    /\ UNCHANGED <<users, flag, nextId, sess, db, proc, hist>>

\* (mutant) without localStorage.removeItem(SESSION_KEY)
HandleLogoutKeepCache ==
    /\ Page = "dashboard"
    /\ app' = [app EXCEPT !.currentUser = NullUser]
    /\ last' = Call("handleLogout", 0, Null,
                    Outcome(users, flag, OK, NullUser), NoFault)
    /\ UNCHANGED <<users, flag, nextId, sess, db, proc, hist>>

HandleLogout ==
    /\ Page = "dashboard"
    /\ app' = [app EXCEPT !.currentUser = NullUser, !.stored = Null]
    /\ last' = Call("handleLogout", 0, Null,
                    Outcome(users, flag, OK, NullUser), NoFault)
    /\ UNCHANGED <<users, flag, nextId, sess, db, proc, hist>>

\* ---- registering and logging in
\* what the administrator types into the form, what a visitor types to log in
RegisterNames == {"admin", "ann", "Ann"}
RegisterPasswords == {"pw", "pw2"}
TypedPasswords == RegisterPasswords \cup {ADMIN_CREDENTIALS.password}

NextSession ==
    \/ \E s \in Sessions : Mount(s, NoFault) /\ UNCHANGED rest
    \/ \E s \in Sessions, un \in RegisterNames, pw \in RegisterPasswords :
          /\ \/ nextId <= MaxSessionIds
             \/ \E x \in DOMAIN users : users[x].username = un
          /\ HandleAddUser(s, un, pw, NoFault)
          /\ UNCHANGED rest
    \/ \E s \in Sessions, id \in Issued :
          HandleDeleteUser(s, id, NoFault) /\ UNCHANGED rest
    \/ Reload
    \/ InitApp(NoFault)
    \/ \E un \in RegisterNames, pw \in TypedPasswords :
          HandleLogin(un, pw, NoFault)
    \/ HandleLogout

SpecSession == Init /\ [][NextSession]_vars

\* ---- first start on an empty table
\* Every browser runs seedAdminIfNeeded when its page loads: the count query
\* and the insert are two calls, and other browsers' calls come in between.
Loading == [pc |-> "start"]
Seeding == [pc |-> "seedInsert"]

SeedBegin(s) ==
    /\ proc[s] = Loading
    /\ LET count == SeedCount(users, NoFault)
       IN  /\ proc' = [proc EXCEPT ![s] = IF count = 0 THEN Seeding ELSE Idle]
           /\ last' = Call("seedCount", s, count,
                           Outcome(users, flag, OK, NullUser), NoFault)
    /\ UNCHANGED <<users, flag, nextId, sess, db, app, hist>>

SeedInsert(s) ==
    /\ proc[s] = Seeding
    /\ users' = Insert(users, AdminId, AdminRow)
    /\ proc' = [proc EXCEPT ![s] = Idle]
    /\ last' = Call("seedInsert", s, AdminId,
                    Outcome(users', flag,
                            IF AdminId \in DOMAIN users THEN StoreError ELSE OK,
                            NullUser), NoFault)
    /\ UNCHANGED <<flag, nextId, sess, db, app, hist>>

\* the page of the browser is loaded again
PageLoad(s) ==
    /\ proc[s] = Idle
    /\ proc' = [proc EXCEPT ![s] = Loading]
    /\ sess' = [sess EXCEPT ![s] = [users |-> {}, isShuffled |-> FALSE]]
    /\ last' = Call("reload", s, Null, Outcome(users, flag, OK, NullUser), NoFault)
    /\ UNCHANGED <<users, flag, nextId, db, app, hist>>

\* the dashboard is there once the page has started and the administrator
\* has logged in
Dashboard(s) ==
    /\ proc[s] = Idle
    /\ Authenticate(users, ADMIN_CREDENTIALS.username,
                    ADMIN_CREDENTIALS.password, NoFault) # NullUser

InitSeed ==
    /\ users = <<>>
    /\ flag = "false"
    /\ nextId = 1
    /\ sess = [s \in Sessions |-> [users |-> {}, isShuffled |-> FALSE]]
    /\ last = NoCall
    /\ db = Connected
    /\ proc = [s \in Sessions |-> Loading]
    /\ app = AppStart(Null)
    /\ hist = <<>>

NextSeed ==
    \/ \E s \in Sessions : SeedBegin(s)
    \/ \E s \in Sessions : SeedInsert(s)
    \/ \E s \in Sessions : PageLoad(s)
    \/ \E s \in Sessions :
          Dashboard(s) /\ Mount(s, NoFault) /\ UNCHANGED rest
    \/ \E s \in Sessions, un \in Usernames, pw \in Passwords :
          /\ Dashboard(s)
          /\ nextId <= MaxSeedIds
          /\ HandleAddUser(s, un, pw, NoFault)
          /\ UNCHANGED rest
    \/ \E s \in Sessions :
          Dashboard(s) /\ ShuffleStep(s, NoFault) /\ UNCHANGED rest
    \/ \E s \in Sessions :
          Dashboard(s) /\ HandleReset(s, NoFault) /\ UNCHANGED rest

SpecSeed == InitSeed /\ [][NextSeed]_vars

\* ---- the pairing engine on a given roster
\* A roster of n participants registered before the game starts, nobody
\* assigned, the flag 'false', every dashboard loaded.
Roster(n) ==
    [x \in {AdminId} \cup (1..n) |->
        IF x = AdminId THEN AdminRow
        ELSE Row(RosterNames[x], "pw", PARTICIPANT)]

InitRoster(max) ==
    \E n \in 0..max :
        /\ users = Roster(n)
        /\ flag = "false"
        /\ nextId = n + 1
        /\ sess = [s \in Sessions |->
                      RefreshData([users |-> {}, isShuffled |-> FALSE],
                                  Roster(n), "false", NoFault)]
        /\ last = NoCall
        /\ RestInit

InitPairing == InitRoster(MaxRoster)

NextPairing ==
    \/ \E s \in Sessions : Mount(s, NoFault) /\ UNCHANGED rest
    \/ \E s \in Sessions : ShuffleStep(s, NoFault) /\ UNCHANGED rest
    \/ \E s \in Sessions : HandleReset(s, NoFault) /\ UNCHANGED rest
    \/ \E id \in Issued : FetchAssignment(id, NoFault) /\ UNCHANGED rest


SpecPairing == InitPairing /\ [][NextPairing]_vars

\* ---- rounds of the game
\* hist keeps the names of the last three performShuffle and resetGame calls
\* that returned normally
Remember(h, call) ==
    IF call.result # OK THEN h
    ELSE IF Len(h) < 3 THEN Append(h, call.op)
    ELSE Append(Tail(h), call.op)

NextRounds ==
    \/ \E s \in Sessions : Mount(s, NoFault) /\ UNCHANGED rest
    \/ \E s \in Sessions :
          /\ ShuffleStep(s, NoFault)
          /\ hist' = Remember(hist, last')
          /\ UNCHANGED <<db, proc, app>>
    \/ \E s \in Sessions :
          /\ HandleReset(s, NoFault)
          /\ hist' = Remember(hist, last')
          /\ UNCHANGED <<db, proc, app>>
    \/ \E id \in Issued : FetchAssignment(id, NoFault) /\ UNCHANGED rest

SpecRounds == InitPairing /\ [][NextRounds]_vars

\* ---- the calls of two dashboards, store call by store call
\* performShuffle between its awaits: updates is the array of updates it
\* built, pending the givers whose update has not reached the store, alone
\* whether no other run has overlapped with this one
Assigning(updates, pending, alone) ==
    [pc |-> "assigning", updates |-> updates, pending |-> pending,
     alone |-> alone]

\* addUser between the existence check and the insert
Inserting(newUser) == [pc |-> "inserting", newUser |-> newUser]

InFlight(s) == proc[s].pc = "assigning"

\* handleShuffle up to Promise.all: getUsers, the filter, the shuffle, and
\* the n updates sent off
ShuffleStart(s, r) ==
    /\ proc[s] = Idle
    /\ CanShuffle(sess[s])
    /\ LET participants == ParticipantList(users)
           n == Len(participants)
       IN  IF n < 2
           THEN /\ last' = Call("getUsers", s, Null,
                                Outcome(users, flag, InsufficientParticipants,
                                        NullUser), NoFault)
                /\ UNCHANGED proc
           ELSE LET updates == Updates(FisherYates(participants, r, n))
                    others == {t \in Sessions \ {s} : InFlight(t)}
                IN  /\ proc' = [t \in Sessions |->
                                   IF t = s
                                   THEN Assigning(updates, DOMAIN updates,
                                                  others = {})
                                   ELSE IF t \in others
                                   THEN [proc[t] EXCEPT !.alone = FALSE]
                                   ELSE proc[t]]
                    /\ last' = Call("getUsers", s, Null,
                                    Outcome(users, flag, OK, NullUser), NoFault)
    /\ UNCHANGED <<users, flag, nextId, sess, db, app, hist>>

\* one of the updates reaches the store; they arrive in any order
WriteAssign(s, x) ==
    /\ InFlight(s)
    /\ x \in proc[s].pending
    /\ users' = AssignOne(users, proc[s].updates, x)
    /\ proc' = [proc EXCEPT ![s].pending = @ \ {x}]
    /\ last' = Call("assign", s, x, Outcome(users', flag, OK, NullUser), NoFault)
    /\ UNCHANGED <<flag, nextId, sess, db, app, hist>>

\* Promise.all has resolved: the flag update, then refreshData
WriteFlag(s) ==
    /\ InFlight(s)
    /\ proc[s].pending = {}
    /\ flag' = "true"
    /\ sess' = [sess EXCEPT ![s] = RefreshData(sess[s], users, "true", NoFault)]
    /\ proc' = [proc EXCEPT ![s] = Idle]
    /\ last' = Call("performShuffle", s,
                    [updates |-> proc[s].updates, alone |-> proc[s].alone],
                    Outcome(users, "true", OK, NullUser), NoFault)
    /\ UNCHANGED <<users, nextId, db, app, hist>>

\* handleAddUser up to the insert: the existence check, then randomUUID
AddCheck(s, username, password) ==
    /\ proc[s] = Idle
    /\ CanAdd(sess[s])
    /\ nextId <= MaxId
    /\ LET existing == Single({x \in DOMAIN users :
                                   users[x].username = username})
           newUser == [id |-> nextId, username |-> username,
                       password |-> password]
       IN  IF existing # Null
           THEN /\ last' = Call("select", s, newUser,
                                Outcome(users, flag, DuplicateUsername,
                                        NullUser), NoFault)
                /\ UNCHANGED <<proc, nextId>>
           ELSE /\ proc' = [proc EXCEPT ![s] = Inserting(newUser)]
                /\ nextId' = nextId + 1
                /\ last' = Call("select", s, newUser,
                                Outcome(users, flag, OK, NullUser), NoFault)
    /\ UNCHANGED <<users, flag, sess, db, app, hist>>

\* the insert reaches the store, then refreshData
AddInsert(s) ==
    /\ proc[s].pc = "inserting"
    /\ LET newUser == proc[s].newUser
           row == Row(newUser.username, newUser.password, PARTICIPANT)
       IN  /\ users' = Insert(users, newUser.id, row)
           /\ last' = Call("addUser", s, newUser,
                           Outcome(users', flag, OK, ToUser(newUser.id, row)),
                           NoFault)
    /\ sess' = [sess EXCEPT ![s] = RefreshData(sess[s], users', flag, NoFault)]
    /\ proc' = [proc EXCEPT ![s] = Idle]
    /\ UNCHANGED <<flag, nextId, db, app, hist>>

InitConc == InitRoster(MaxConcRoster)

NextConc ==
    \/ \E s \in Sessions :
          proc[s] = Idle /\ Mount(s, NoFault) /\ UNCHANGED rest
    \/ \E s \in Sessions,
          r \in RandomOutcomes(Cardinality(Participants(users))) :
          ShuffleStart(s, r)
    \/ \E s \in Sessions, x \in Issued : WriteAssign(s, x)
    \/ \E s \in Sessions : WriteFlag(s)
    \/ \E s \in Sessions :
          proc[s] = Idle /\ HandleReset(s, NoFault) /\ UNCHANGED rest

SpecConc == InitConc /\ [][NextConc]_vars

\* two dashboards registering participants at the same time
NextRegister ==
    \/ \E s \in Sessions :
          proc[s] = Idle /\ Mount(s, NoFault) /\ UNCHANGED rest
    \/ \E s \in Sessions, un \in Usernames, pw \in Passwords :
          AddCheck(s, un, pw)
    \/ \E s \in Sessions : AddInsert(s)

SpecRegister == Init /\ [][NextRegister]_vars

\* ---- the service with and without a connection
NotConnectedError == "DB not connected"

\* The first line of every method: what it does when this.supabase is null.
\* getUsers, addUser, deleteUser, updateUserWishlist, authenticate,
\* performShuffle and resetGame throw; seedAdminIfNeeded returns,
\* getUserById returns undefined, isShuffled returns false, and
\* getAssignmentFor, which starts with getUserById, returns null.
Unconnected(op, u, fl) ==
    CASE op = "seedAdminIfNeeded" -> Outcome(u, fl, OK, NullUser)
      [] op = "getUserById"       -> Outcome(u, fl, OK, Undefined)
      [] op = "isShuffled"        -> Outcome(u, fl, OK, FALSE)
      [] op = "getAssignmentFor"  -> Outcome(u, fl, OK, NullUser)
      [] OTHER                    -> Outcome(u, fl, NotConnectedError, NullUser)

\* db.<op>(arg) called on the service as it is; o is what the method does
\* with a connection
DbCall(op, arg, o) ==
    LET done == IF db.supabase THEN o ELSE Unconnected(op, users, flag)
    IN  /\ users' = done.users
        /\ flag' = done.flag
        /\ last' = Call(op, 0, arg, done, NoFault)
        /\ UNCHANGED <<sess, db, proc, app, hist>>

CallSeedAdminIfNeeded ==
    /\ DbCall("seedAdminIfNeeded", Null,
              Outcome(SeedAdminIfNeeded(users, NoFault), flag, OK, NullUser))
    /\ UNCHANGED nextId

CallGetUsers ==
    /\ DbCall("getUsers", Null, Outcome(users, flag, OK, NullUser))
    /\ UNCHANGED nextId

CallAddUser(username, password) ==
    /\ nextId <= MaxId
    /\ LET o == AddUser(users, flag, nextId, username, password, NoFault)
       IN  /\ DbCall("addUser",
                     [id |-> nextId, username |-> username,
                      password |-> password], o)
           /\ nextId' = IF db.supabase /\ o.result = OK THEN nextId + 1
                        ELSE nextId

CallDeleteUser(userId) ==
    /\ DbCall("deleteUser", userId, DeleteUser(users, flag, userId, NoFault))
    /\ UNCHANGED nextId

CallUpdateUserWishlist(userId, wishlist) ==
    /\ DbCall("updateUserWishlist", userId,
              UpdateUserWishlist(users, flag, userId, wishlist, NoFault))
    /\ UNCHANGED nextId

CallGetUserById(userId) ==
    /\ DbCall("getUserById", userId,
              Outcome(users, flag, OK, GetUserById(users, userId, NoFault)))
    /\ UNCHANGED nextId

CallAuthenticate(username, password) ==
    /\ DbCall("authenticate", [username |-> username, password |-> password],
              Outcome(users, flag, OK,
                      Authenticate(users, username, password, NoFault)))
    /\ UNCHANGED nextId

CallIsShuffled ==
    /\ DbCall("isShuffled", Null,
              Outcome(users, flag, OK, IsShuffled(flag, NoFault)))
    /\ UNCHANGED nextId

CallPerformShuffle ==
    /\ \E r \in RandomOutcomes(Cardinality(Participants(users))) :
          DbCall("performShuffle", Null, PerformShuffle(users, flag, r, NoFault))
    /\ UNCHANGED nextId

CallResetGame ==
    /\ DbCall("resetGame", Null, ResetGame(users, flag, NoFault))
    /\ UNCHANGED nextId

CallGetAssignmentFor(userId) ==
    /\ DbCall("getAssignmentFor", userId,
              Outcome(users, flag, OK, GetAssignmentFor(users, userId, NoFault)))
    /\ UNCHANGED nextId

\* initClient(url, key) with what was typed: usable values give a client;
\* otherwise isConfigured is cleared and supabase stays what it was
InitClient(d, usable) ==
    IF usable THEN Connected ELSE [d EXCEPT !.isConfigured = FALSE]

\* ConfigPage.handleConnect: initClient, getUsers, then App's onConnect
\* (setIsDbReady(true); seedAdminIfNeeded()); a throw of getUsers shows an
\* error and leaves the page
HandleConnect(usable) ==
    /\ Page = "config"
    /\ db' = InitClient(db, usable)
    /\ IF db'.supabase
       THEN /\ users' = SeedAdminIfNeeded(users, NoFault)
            /\ app' = [app EXCEPT !.isDbReady = TRUE]
            /\ last' = Call("handleConnect", 0, usable,
                            Outcome(users', flag, OK, NullUser), NoFault)
       ELSE /\ last' = Call("handleConnect", 0, usable,
                            Outcome(users, flag, NotConnectedError, NullUser),
                            NoFault)
            /\ UNCHANGED <<users, app>>
    /\ UNCHANGED <<flag, nextId, sess, proc, hist>>

\* The deployment has a connection target built in, or has none and no
\* configuration was saved in this browser.
InitConfig ==
    \E n \in 0..MaxConfigRoster :
        /\ users = Roster(n)
        /\ flag = "false"
        /\ nextId = n + 1
        /\ sess = [s \in Sessions |-> [users |-> {}, isShuffled |-> FALSE]]
        /\ last = NoCall
        /\ db \in {Connected, NotConnected}
        /\ proc = [s \in Sessions |-> Idle]
        /\ app = AppStart(Null)
        /\ hist = <<>>

NextConfig ==
    \/ InitApp(NoFault)
    \/ \E usable \in BOOLEAN : HandleConnect(usable)
    \/ CallSeedAdminIfNeeded
    \/ CallGetUsers
    \/ \E un \in Usernames, pw \in Passwords : CallAddUser(un, pw)
    \/ \E id \in Issued : CallDeleteUser(id)
    \/ \E id \in Issued, w \in Wishlists : CallUpdateUserWishlist(id, w)
    \/ \E id \in Issued \cup {AdminId} : CallGetUserById(id)
    \/ \E un \in Usernames, pw \in TypedPasswords : CallAuthenticate(un, pw)
    \/ CallIsShuffled
    \/ CallPerformShuffle
    \/ CallResetGame
    \/ \E id \in Issued : CallGetAssignmentFor(id)

SpecConfig == InitConfig /\ [][NextConfig]_vars

\* ---- the store may answer a call with an error
\* At most one call of a handler fails.
OneOf(calls) == {NoFault} \cup {{c} : c \in calls}

RefreshCalls == {<<"refresh", 0>>, <<"isShuffled", 0>>}

NextFault ==
    \/ \E s \in Sessions, f \in OneOf(RefreshCalls) :
          Mount(s, f) /\ UNCHANGED rest
    \/ \E s \in Sessions,
          f \in OneOf({<<"getUsers", 0>>, <<"setFlag", 0>>} \cup RefreshCalls
                      \cup {<<"assign", id>> : id \in Participants(users)}) :
          ShuffleStep(s, f) /\ UNCHANGED rest
    \/ \E s \in Sessions,
          f \in OneOf({<<"clear", 0>>, <<"setFlag", 0>>} \cup RefreshCalls) :
          HandleReset(s, f) /\ UNCHANGED rest
    \/ \E id \in Issued, f \in OneOf({<<"getUser", x>> : x \in Issued}) :
          FetchAssignment(id, f) /\ UNCHANGED rest


InitFault == InitRoster(MaxFaultRoster)

SpecFault == InitFault /\ [][NextFault]_vars

\* ================================================================ claims
\* assigned_to_id of the participants is a permutation of their ids with no
\* fixed point
IsDerangement(u) ==
    LET P == Participants(u)
    IN  /\ \A x \in P : u[x].assigned_to_id \in P \ {x}
        /\ \A x, y \in P : x # y => u[x].assigned_to_id # u[y].assigned_to_id

\* the participant reached from x after k hops along assigned_to_id
RECURSIVE Hop(_, _, _)
Hop(u, x, k) ==
    IF k = 0 \/ x \notin DOMAIN u THEN x
    ELSE Hop(u, u[x].assigned_to_id, k - 1)

IsSingleCycle(u) ==
    LET P == Participants(u)
        n == Cardinality(P)
    IN  \A x \in P :
            /\ Hop(u, x, n) = x
            /\ \A k \in 1..(n - 1) : Hop(u, x, k) # x
            /\ {Hop(u, x, k) : k \in 0..(n - 1)} = P

ShuffleReturned == last.op = "performShuffle" /\ last.result = OK

\* C1: after performShuffle returns without error, the assigned_to_id values
\* of the participants are exactly the participant ids, each once, and nobody
\* is assigned to themselves, whatever Math.random() gave.
C1_ShuffleIsDerangement == ShuffleReturned => IsDerangement(users)

\* C1 witness: a shuffle of three or more participants has returned
C1_Witness == ShuffleReturned /\ Cardinality(Participants(users)) >= 3

\* C2: the assignment performShuffle writes is one cycle through all n
\* participants: from anybody, n hops lead back, fewer do not, and everybody
\* is visited; two participants are assigned to each other.
C2_ShuffleIsSingleCycle ==
    ShuffleReturned =>
        /\ IsSingleCycle(users)
        /\ \A a, b \in Participants(users) :
              (a # b /\ Participants(users) = {a, b}) =>
                  users[a].assigned_to_id = b /\ users[b].assigned_to_id = a

\* C2 witness: a shuffle of four participants, where a derangement could be
\* two cycles of two, has returned
C2_Witness == ShuffleReturned /\ Cardinality(Participants(users)) = 4

\* C3: with fewer than two participants in the store performShuffle ends with
\* the insufficient-participants error and changes neither a row nor the flag.
C3_InsufficientLeavesStore ==
    [][(last'.op = "performShuffle" /\ Cardinality(Participants(users)) < 2)
         => /\ last'.result = InsufficientParticipants
            /\ users' = users
            /\ flag' = flag]_vars

\* C3 witness: performShuffle was refused with one participant in the store
C3_Witness ==
    /\ last.op = "performShuffle"
    /\ last.result = InsufficientParticipants
    /\ Cardinality(Participants(users)) = 1

\* C4: while the flag is 'true' every participant has an assigned_to_id that
\* names another existing participant, and the assignments are a permutation
\* of the participant ids with no fixed point.
C4_LockedIsDerangement == flag = "true" => IsDerangement(users)

\* C5: while the persisted flag is 'true' no participant is created, in any
\* admin session.
C5_NoCreateWhileLocked ==
    [][flag = "true" => DOMAIN users' \subseteq DOMAIN users]_vars

\* C6: while the persisted flag is 'true' no row is deleted, in any admin
\* session.
C6_NoDeleteWhileLocked ==
    [][flag = "true" => DOMAIN users \subseteq DOMAIN users']_vars

\* C7: resetGame, whatever the state it is called in, ends with every
\* assigned_to_id null and the flag 'false'; a second resetGame would change
\* nothing; the form and the delete buttons of the session are enabled again.
C7_ResetClears ==
    last.op = "resetGame" =>
        /\ \A x \in DOMAIN users : users[x].assigned_to_id = Null
        /\ flag = "false"
        /\ ResetGame(users, flag, NoFault).users = users
        /\ ResetGame(users, flag, NoFault).flag = flag
        /\ CanAdd(sess[last.by])
        /\ \A x \in Participants(users) : CanDelete(sess[last.by], x)

\* C7 witness: resetGame has run on a store that was already reset and still
\* holds participants
C7_Witness ==
    /\ last.op = "resetGame"
    /\ last.before = "false"
    /\ Participants(users) # {}

\* C8: when one of the assignment updates of a performShuffle fails, that
\* performShuffle does not turn the flag from 'false' to 'true'.
C8_FailedUpdateKeepsFlag ==
    [][(/\ last'.op = "performShuffle"
        /\ Cardinality(Participants(users)) >= 2
        /\ \E x \in Participants(users) : <<"assign", x>> \in last'.faults
        /\ flag = "false")
         => flag' = "false"]_vars

\* C9: a performShuffle that starts while the persisted flag is 'true' is
\* refused and writes no assignment.
C9_NoShuffleWhileLocked ==
    [][(flag = "true" /\ last'.op = "performShuffle")
         => last'.result # OK /\ users' = users]_vars

\* what getAssignmentFor(userId) is to return in store u
ExpectedAssignment(u, userId) ==
    IF \/ userId \notin DOMAIN u
       \/ u[userId].assigned_to_id = Null
       \/ u[userId].assigned_to_id \notin DOMAIN u
    THEN NullUser
    ELSE ToUser(u[userId].assigned_to_id, u[u[userId].assigned_to_id])

\* C10: getAssignmentFor(id) returns null when the user has no assignment,
\* when the assignment names a deleted user and when id names no user, and
\* the user assigned otherwise; it changes nothing in the store.
C10_GetAssignmentTotal ==
    [][last'.op = "getAssignmentFor"
         => /\ last'.ret = ExpectedAssignment(users, last'.arg)
            /\ last'.result = OK
            /\ users' = users
            /\ flag' = flag]_vars

\* C10 witness: getAssignmentFor answered null for a participant whose
\* assigned_to_id names a deleted user
C10_Witness ==
    /\ last.op = "getAssignmentFor"
    /\ last.arg \in DOMAIN users
    /\ users[last.arg].assigned_to_id # Null
    /\ users[last.arg].assigned_to_id \notin DOMAIN users
    /\ last.ret = NullUser

\* C11: addUser is refused with 'Username already exists', and the table is
\* left as it was, whenever some stored user has exactly that username,
\* whatever password was typed; otherwise it stores one new row, a
\* PARTICIPANT with the typed username and password, an empty wishlist and
\* nobody assigned, and changes no other row.
C11_AddUserContract ==
    [][last'.op = "addUser" =>
        LET a == last'.arg
        IN  IF \E x \in DOMAIN users : users[x].username = a.username
            THEN last'.result = DuplicateUsername /\ users' = users
            ELSE /\ last'.result = OK
                 /\ a.id \notin DOMAIN users
                 /\ DOMAIN users' = DOMAIN users \cup {a.id}
                 /\ \A x \in DOMAIN users : users'[x] = users[x]
                 /\ users'[a.id] =
                        [username |-> a.username, password |-> a.password,
                         role |-> PARTICIPANT, wishlist |-> "",
                         assigned_to_id |-> Null]]_vars

\* a username was refused although the password typed differs from the one
\* stored, while 'ann' and 'Ann' are both registered
C11_Witness ==
    /\ last.op = "addUser"
    /\ last.result = DuplicateUsername
    /\ \E x \in DOMAIN users : /\ users[x].username = last.arg.username
                               /\ users[x].password # last.arg.password
    /\ \E x, y \in DOMAIN users : /\ users[x].username = "ann"
                                  /\ users[y].username = "Ann"
Admins(u) == {x \in DOMAIN u : u[x].role = ADMIN}

\* C12: once some browser has finished seedAdminIfNeeded there is exactly one
\* ADMIN row, however often and from however many browsers the seeding
\* runs; no ADMIN row ever has an assigned_to_id, and nobody is ever
\* assigned an ADMIN row.
C12_OneAdminNeverPaired ==
    /\ (\E s \in Sessions : proc[s] = Idle) => Cardinality(Admins(users)) = 1
    /\ \A x \in Admins(users) : users[x].assigned_to_id = Null
    /\ \A x \in DOMAIN users : users[x].assigned_to_id \notin Admins(users)

\* two browsers both counted an empty table; the second insert found the
\* administrator's row already there
C12_Witness ==
    /\ last.op = "seedInsert"
    /\ last.result = StoreError
    /\ Cardinality(Admins(users)) = 1
\* C13: authenticate hands back a user only if a stored row has exactly the
\* username and the password that were typed, and then it is that row and
\* the page logs that user in; when no stored row matches both it hands
\* back null and the page stays logged out.
C13_AuthenticateExact ==
    [][last'.op = "authenticate" =>
        LET a == last'.arg
            user == last'.ret
            matching == {x \in DOMAIN users : /\ users[x].username = a.username
                                              /\ users[x].password = a.password}
        IN  /\ user # NullUser =>
                  /\ user.id \in matching
                  /\ user = ToUser(user.id, users[user.id])
                  /\ app'.currentUser = user
                  /\ app'.stored = user.id
            /\ matching = {} => user = NullUser
            /\ user = NullUser =>
                  /\ app'.currentUser = NullUser
                  /\ app'.stored = Null]_vars

\* a log-in with a registered participant's username and another
\* participant's password was turned down
C13_Witness ==
    /\ last.op = "authenticate"
    /\ last.ret = NullUser
    /\ app.currentUser = NullUser
    /\ \E x, y \in Participants(users) :
          /\ users[x].username = last.arg.username
          /\ users[x].password # last.arg.password
          /\ users[y].password = last.arg.password
CoreOperations ==
    {"getUsers", "getUserById", "addUser", "deleteUser", "updateUserWishlist",
     "authenticate", "isShuffled", "performShuffle", "resetGame",
     "getAssignmentFor", "seedAdminIfNeeded"}

\* C14: while the service has no client, every core operation ends with the
\* 'DB not connected' failure, and the page shown is the setup page.
C14_NotConfiguredRefuses ==
    /\ (~db.supabase /\ last.op \in CoreOperations) =>
           last.result = NotConnectedError
    /\ (~db.isConfigured /\ ~app.isLoading) => Page = "config"
\* the store calls made by the db method itself (the refresh that follows in
\* the handler is another method)
MethodFaults(call) ==
    {c \in call.faults : c[1] \in {"getUsers", "assign", "setFlag", "clear"}}

\* C15: a performShuffle or resetGame one of whose store calls failed does
\* not end as a success.
C15_NoSwallowedFailure ==
    (last.op \in {"performShuffle", "resetGame"} /\ MethodFaults(last) # {})
        => last.result # OK
\* C16: a shuffle, a reset and a second shuffle on a roster of two or more:
\* the reset leaves the flag 'false' and nobody assigned, so nothing of the
\* first shuffle is left, and the second shuffle leaves the flag 'true' and
\* the whole roster paired in one cycle without fixed point.
C16_ShuffleResetShuffle ==
    /\ (/\ Len(hist) >= 2
        /\ hist[Len(hist) - 1] = "performShuffle"
        /\ hist[Len(hist)] = "resetGame"
        /\ last.op = "resetGame")
         => /\ flag = "false"
            /\ \A x \in DOMAIN users : users[x].assigned_to_id = Null
    /\ (/\ hist = <<"performShuffle", "resetGame", "performShuffle">>
        /\ last.op = "performShuffle"
        /\ last.result = OK)
         => /\ flag = "true"
            /\ Cardinality(Participants(users)) >= 2
            /\ IsDerangement(users)
            /\ IsSingleCycle(users)

C16_Witness ==
    /\ hist = <<"performShuffle", "resetGame", "performShuffle">>
    /\ last.op = "performShuffle"
    /\ last.result = OK
    /\ last.before = "false"
    /\ Cardinality(Participants(users)) >= 3
\* C17: while one performShuffle run is in flight and no other run has
\* overlapped with it, a reader who finds the flag 'true' finds the whole
\* roster paired by one run, a single cycle without fixed point; a roster
\* that is only partly written is seen with the flag 'false' only.
C17_FlagTrueMeansComplete ==
    \A s \in Sessions :
        (InFlight(s) /\ proc[s].alone /\ flag = "true")
            => IsDerangement(users) /\ IsSingleCycle(users)

\* the run's update of row x has just reached the store
Written(s, x) ==
    /\ InFlight(s)
    /\ proc'[s].pc = "assigning"
    /\ x \in proc[s].pending \ proc'[s].pending

\* C18: nothing serializes two performShuffle runs. Each update of a run
\* overwrites the one field it names with that run's receiver, whatever
\* another run has written or is about to write, and touches nothing else;
\* and a run that has sent all its updates sets the flag 'true' and leaves
\* the rows as they are, a mix of the runs' updates included.
C18_LastWriteWinsPerField ==
    [][\A s \in Sessions :
          /\ \A x \in DOMAIN users :
                Written(s, x) =>
                   /\ users'[x] = [users[x] EXCEPT
                                      !.assigned_to_id = proc[s].updates[x]]
                   /\ \A y \in DOMAIN users \ {x} : users'[y] = users[y]
                   /\ flag' = flag
          /\ (InFlight(s) /\ proc'[s] = Idle) =>
                /\ proc[s].pending = {}
                /\ flag' = "true"
                /\ users' = users]_vars

\* two runs that overlapped are both over: the flag is 'true', everybody
\* has a receiver, some rows hold the last run's update and some the other
\* run's, and the pairing is not one cycle
C18_Witness ==
    /\ \A s \in Sessions : proc[s] = Idle
    /\ flag = "true"
    /\ last.op = "performShuffle"
    /\ ~last.arg.alone
    /\ \A x \in Participants(users) : users[x].assigned_to_id # Null
    /\ \E x, y \in DOMAIN last.arg.updates :
          /\ users[x].assigned_to_id = last.arg.updates[x]
          /\ users[y].assigned_to_id # last.arg.updates[y]
    /\ ~IsSingleCycle(users)

\* C19: no two stored rows have the same username.
C19_UsernamesUnique ==
    \A x, y \in DOMAIN users :
        users[x].username = users[y].username => x = y
\* C20: once initApp has finished, currentUser is set exactly when
\* localStorage holds that user's id. initApp with no cached id, or with a
\* cached id that no row has, ends logged out with the cache empty and no
\* error; with a cached id that a row has, it logs that user in and keeps
\* the id. A log-in stores the id of the user it got; a log-out removes it.
C20_SessionCacheConsistent ==
    [][/\ ~app'.isLoading =>
             IF app'.currentUser = NullUser THEN app'.stored = Null
             ELSE app'.stored = app'.currentUser.id
       /\ (app.isLoading /\ last'.op = "initApp") =>
             /\ last'.result = OK
             /\ ~app'.isLoading
             /\ IF app.stored \in DOMAIN users'
                THEN /\ app'.currentUser = ToUser(app.stored, users'[app.stored])
                     /\ app'.stored = app.stored
                ELSE /\ app'.currentUser = NullUser
                     /\ app'.stored = Null
       /\ (last'.op = "authenticate" /\ last'.ret # NullUser) =>
             app'.stored = last'.ret.id
       /\ (Page = "dashboard" /\ last'.op = "handleLogout") =>
             /\ app'.currentUser = NullUser
             /\ app'.stored = Null]_vars

\* the page was loaded with the cached id of a participant who has been
\* deleted since: the id is gone and nobody is logged in
C20_Witness ==
    /\ last.op = "initApp"
    /\ last.arg # Null
    /\ last.arg \notin DOMAIN users
    /\ ~app.isLoading
    /\ app.currentUser = NullUser
    /\ app.stored = Null
====
